---- MODULE Spec2Model ----
(***************************************************************************)
(* Model of xpense.py, a command-line expense tracker with a CSV store of  *)
(* expenses and a JSON store of per-category monthly budgets.              *)
(*                                                                         *)
(* Representation.                                                         *)
(*  - A date value is a record [year, month, day]; the text of a date is   *)
(*    the tuple of its "-"-separated numbers, the year with the number of  *)
(*    digits it is written with: "2024-12-05" is <<<<4, 2024>>, 12, 5>>,   *)
(*    "0999-01-05" is <<<<4, 999>>, 1, 5>>, "999-01-05" <<<<3, 999>>, 1, 5>>.*)
(*  - An amount is an integer number of thousandths; the text of a number  *)
(*    is <<n>> (n thousandths), the text of a non-number is <<>>.          *)
(*    Sums are exact: binary floating-point error is not modelled.         *)
(*  - A stored CSV row is the tuple of its fields as csv.reader splits     *)
(*    them; quoting is the csv module's and is taken to be lossless.       *)
(*  - An optional date is <<>> (None) or <<d>>; an optional string is the  *)
(*    sentinel None or the string.                                         *)
(***************************************************************************)
EXTENDS Integers, Sequences, FiniteSets, TLC

VARIABLES csvExists, rows, budgetsFile, out

vars == <<csvExists, rows, budgetsFile, out>>

\* Bounds of the model.
MaxRows == 2
MaxRaw == 1

\* Python's None where a string is expected, and where a text is expected.
None == "~None"
NoneTxt == <<>>

\* date.today(): the clock of the run (a Friday).
Today == [year |-> 2024, month |-> 12, day |-> 20]

-----------------------------------------------------------------------------
\* Calendar arithmetic of datetime.date

IsLeap(y) == (y % 4 = 0 /\ y % 100 # 0) \/ y % 400 = 0

DaysIn(y, m) ==
  IF m = 2 THEN (IF IsLeap(y) THEN 29 ELSE 28)
  ELSE IF m \in {4, 6, 9, 11} THEN 30 ELSE 31

DateLT(a, b) ==
  \/ a.year < b.year
  \/ a.year = b.year /\ a.month < b.month
  \/ a.year = b.year /\ a.month = b.month /\ a.day < b.day

MinusOneDay(d) ==
  IF d.day > 1 THEN [d EXCEPT !.day = d.day - 1]
  ELSE IF d.month = 1 THEN [year |-> d.year - 1, month |-> 12, day |-> 31]
  ELSE [year |-> d.year, month |-> d.month - 1, day |-> DaysIn(d.year, d.month - 1)]

PlusOneDay(d) ==
  IF d.day < DaysIn(d.year, d.month) THEN [d EXCEPT !.day = d.day + 1]
  ELSE IF d.month = 12 THEN [year |-> d.year + 1, month |-> 1, day |-> 1]
  ELSE [year |-> d.year, month |-> d.month + 1, day |-> 1]

RECURSIVE MinusDays(_, _)
MinusDays(d, k) == IF k = 0 THEN d ELSE MinusDays(MinusOneDay(d), k - 1)

RECURSIVE PlusDays(_, _)
PlusDays(d, k) == IF k = 0 THEN d ELSE PlusDays(PlusOneDay(d), k - 1)

RECURSIVE DaysBeforeMonth(_, _)
DaysBeforeMonth(y, m) == IF m = 1 THEN 0 ELSE DaysBeforeMonth(y, m - 1) + DaysIn(y, m - 1)

ToOrdinal(d) ==
  LET y == d.year - 1
  IN  y * 365 + (y \div 4) - (y \div 100) + (y \div 400)
      + DaysBeforeMonth(d.year, d.month) + d.day

\* date.weekday(): Monday is 0
Weekday(d) == (ToOrdinal(d) + 6) % 7

-----------------------------------------------------------------------------
\* Text conversions

\* The text of the date y-m-d with a four-digit year
DateText(y, m, d) == <<<<4, y>>, m, d>>

\* strptime(text, "%Y-%m-%d") succeeds; %Y matches exactly four digits
ValidDateText(t) ==
  /\ Len(t) = 3
  /\ t[1][1] = 4
  /\ t[1][2] \in 1..9999
  /\ t[2] \in 1..12
  /\ t[3] \in 1..DaysIn(t[1][2], t[2])

strptime(t) == [year |-> t[1][2], month |-> t[2], day |-> t[3]]

NumDigits(y) == IF y >= 1000 THEN 4 ELSE IF y >= 100 THEN 3 ELSE IF y >= 10 THEN 2 ELSE 1

\* strftime("%Y-%m-%d"): whether %Y pads a year below 1000 with zeros is the
\* C library's choice (glibc does not), so padded is either value.
strftime(d, padded) ==
  <<<<IF padded THEN 4 ELSE NumDigits(d.year), d.year>>, d.month, d.day>>

\* float(text) succeeds
IsNumericText(t) == Len(t) = 1

float(t) == t[1]

\* Rounding of a non-negative amount to two decimals (round-half-even on a
\* tie, which is what both round(x, 2) and "%.2f" do on exactly representable ties).
Round2(x) ==
  LET q == x \div 10
      r == x % 10
  IN  IF r < 5 THEN q * 10
      ELSE IF r > 5 THEN (q + 1) * 10
      ELSE IF q % 2 = 0 THEN q * 10 ELSE (q + 1) * 10

\* f"{x:.2f}"
Format2f(x) == <<Round2(x)>>

\* str.lower() over the category strings of the model
Lower(s) == IF s = "Food" THEN "food" ELSE s

\* Python truthiness of an optional string
Truthy(s) == s # None /\ s # ""

-----------------------------------------------------------------------------
\* Storage

EmptyMap == [c \in {} |-> 0]

\* ensure_storage that opens the expenses file for writing whether or not it exists
EnsureCsvTruncating(exists, rs) == <<>>

\* The expenses file after ensure_storage
EnsureCsv(exists, rs) == IF exists THEN rs ELSE <<>>

\* The budgets file after ensure_storage
EnsureBudgets(b) ==
  IF b.state = "absent" THEN [state |-> "json", map |-> EmptyMap] ELSE b

\* Expense.to_row
to_row(e, padded) ==
  <<strftime(e.when, padded), Format2f(e.amount), e.category, e.note>>

\* One row of csv.DictReader under the header date,amount,category,note:
\* a missing field is None (restval).
DictRow(r) ==
  [date     |-> IF Len(r) >= 1 THEN r[1] ELSE NoneTxt,
   amount   |-> IF Len(r) >= 2 THEN r[2] ELSE NoneTxt,
   category |-> IF Len(r) >= 3 THEN r[3] ELSE None,
   note     |-> IF Len(r) >= 4 THEN r[4] ELSE None]

\* Expense.from_row raises
FromRowRaises(d) == ~ValidDateText(d.date) \/ ~IsNumericText(d.amount)

\* Expense.from_row
from_row(d) ==
  [when |-> strptime(d.date), amount |-> float(d.amount),
   category |-> d.category, note |-> d.note]

RECURSIVE load_expenses(_)
load_expenses(rs) ==
  IF Len(rs) = 0 THEN <<>>
  ELSE LET r == Head(rs)
           rest == load_expenses(Tail(rs))
       IN  IF Len(r) = 0 THEN rest                       \* DictReader skips blank rows
           ELSE IF FromRowRaises(DictRow(r)) THEN rest   \* except Exception: continue
           ELSE <<from_row(DictRow(r))>> \o rest

append_expense(rs, e, padded) == Append(rs, to_row(e, padded))

\* load_budgets on the file left by ensure_storage
load_budgets(b) == IF b.state = "json" THEN b.map ELSE EmptyMap

save_budgets(m) == [state |-> "json", map |-> m]

-----------------------------------------------------------------------------
\* Helpers

\* parse_date raises
ParseDateRaises(t) == t # NoneTxt /\ ~ValidDateText(t)

parse_date(t) == IF t = NoneTxt THEN Today ELSE strptime(t)

month_bounds(d) ==
  LET start == [d EXCEPT !.day = 1]
      next == IF start.month = 12
              THEN [year |-> start.year + 1, month |-> 1, day |-> 1]
              ELSE [year |-> start.year, month |-> start.month + 1, day |-> 1]
  IN  <<start, MinusOneDay(next)>>

\* filter_expenses: raised is set when e.category.lower() is applied to None
RECURSIVE filter_expenses(_, _, _, _)
filter_expenses(es, start, end, category) ==
  IF Len(es) = 0 THEN [raised |-> FALSE, out |-> <<>>]
  ELSE LET e == Head(es)
           rest == filter_expenses(Tail(es), start, end, category)
       IN  IF Len(start) = 1 /\ DateLT(e.when, start[1]) THEN rest
           ELSE IF Len(end) = 1 /\ DateLT(end[1], e.when) THEN rest
           ELSE IF Truthy(category) /\ e.category = None
                THEN [raised |-> TRUE, out |-> <<>>]
           ELSE IF Truthy(category) /\ Lower(e.category) # Lower(category) THEN rest
           ELSE [raised |-> rest.raised,
                 out |-> IF rest.raised THEN <<>> ELSE <<e>> \o rest.out]

RECURSIVE SumAmounts(_)
SumAmounts(es) == IF Len(es) = 0 THEN 0 ELSE Head(es).amount + SumAmounts(Tail(es))

RECURSIVE SummarizeFrom(_, _)
SummarizeFrom(es, totals) ==
  IF Len(es) = 0 THEN totals
  ELSE LET e == Head(es)
           old == IF e.category \in DOMAIN totals THEN totals[e.category] ELSE 0
       IN  SummarizeFrom(Tail(es),
             [c \in DOMAIN totals \cup {e.category} |->
                IF c = e.category THEN old + e.amount ELSE totals[c]])

summarize(es) == SummarizeFrom(es, EmptyMap)

RECURSIVE SumValues(_)
SumValues(f) ==
  IF DOMAIN f = {} THEN 0
  ELSE LET c == CHOOSE x \in DOMAIN f : TRUE
       IN  f[c] + SumValues([x \in DOMAIN f \ {c} |-> f[x]])

\* sorted() over the category strings of the model (None sorts only alone)
CatOrder == <<None, "", "Food", "food">>

SortedCats(S) == SelectSeq(CatOrder, LAMBDA c : c \in S)

-----------------------------------------------------------------------------
\* Commands.  Every command runs under main(), which calls ensure_storage
\* first; out is what the command printed and how it ended:
\*   outcome "ok"        the handler returned
\*           "usage"     the handler printed a usage message and returned
\*           "unhandled" an exception left main()
\*   malformed           a date or month argument was not well formed
\*   fcall               the completed call of filter_expenses, if any

NoCall == <<>>

Call(start, end, category, result) ==
  <<[start |-> start, end |-> end, category |-> category, result |-> result]>>

\* The budget alert of cmd_add (lines 156-163)
budget_alert(mtd, budget) ==
  IF mtd > budget
  THEN [status |-> "EXCEEDED", delta |-> mtd - budget,
        pct |-> IF budget # 0 THEN [num |-> mtd * 100, den |-> budget]
                ELSE [num |-> 0, den |-> 1]]
  ELSE [status |-> "OK", delta |-> budget - mtd,
        pct |-> IF budget # 0 THEN [num |-> mtd * 100, den |-> budget]
                ELSE [num |-> 0, den |-> 1]]

cmd_add(dateArg, amount, category, noteArg, padded) ==
  LET rs0 == EnsureCsv(csvExists, rows)
      bud0 == EnsureBudgets(budgetsFile)
  IN  /\ csvExists' = TRUE
      /\ budgetsFile' = bud0
      /\ IF ParseDateRaises(dateArg)
         THEN /\ rows' = rs0
              /\ out' = [cmd |-> "add", outcome |-> "unhandled", malformed |-> TRUE,
                         fcall |-> NoCall, appended |-> FALSE]
         ELSE LET when == parse_date(dateArg)
                  e == [when |-> when, amount |-> amount, category |-> category,
                        note |-> IF Truthy(noteArg) THEN noteArg ELSE ""]
                  rs1 == append_expense(rs0, e, padded)
                  budgets == load_budgets(bud0)
                  mb == month_bounds(when)
                  f == filter_expenses(load_expenses(rs1), <<mb[1]>>, <<mb[2]>>, e.category)
                  mtd == SumAmounts(f.out)
                  alert == budget_alert(mtd, budgets[e.category])
              IN  /\ Len(rows) < MaxRows
                  /\ rows' = rs1
                  /\ out' =
                       IF e.category \notin DOMAIN budgets
                       THEN [cmd |-> "add", outcome |-> "ok", malformed |-> FALSE,
                             fcall |-> NoCall, appended |-> TRUE, e |-> e,
                             status |-> "none"]
                       ELSE IF f.raised
                       THEN [cmd |-> "add", outcome |-> "unhandled", malformed |-> FALSE,
                             fcall |-> NoCall, appended |-> TRUE, e |-> e,
                             status |-> "none"]
                       ELSE [cmd |-> "add", outcome |-> "ok", malformed |-> FALSE,
                             fcall |-> Call(<<mb[1]>>, <<mb[2]>>, e.category, f.out),
                             appended |-> TRUE, e |-> e,
                             status |-> alert.status, mtd |-> mtd,
                             budget |-> budgets[e.category],
                             delta |-> alert.delta, pct |-> alert.pct]

\* ex.sort(key=lambda x: (x.when, x.category)) raises: a None category has to
\* be compared with a string one when both occur on the same date
SortRaises(ex) ==
  \E i, j \in DOMAIN ex :
    /\ ex[i].when = ex[j].when
    /\ ex[i].category = None
    /\ ex[j].category # None

\* The --month argument is [this |-> TRUE] for "this", else [this |-> FALSE,
\* parts |-> the "-"-separated numbers]; NoMonth is the absent argument.
NoMonth == [this |-> FALSE, parts |-> <<>>]

MonthRaises(m) ==
  /\ m # NoMonth
  /\ ~m.this
  /\ \/ Len(m.parts) # 2                                   \* y, m = split("-")
     \/ m.parts[1] \notin 1..9999 \/ m.parts[2] \notin 1..12   \* date(y, m, 1)

cmd_list(month, startArg, endArg, category) ==
  LET rs0 == EnsureCsv(csvExists, rows)
      bud0 == EnsureBudgets(budgetsFile)
      expenses == load_expenses(rs0)
      raises == \/ (startArg # NoneTxt /\ ParseDateRaises(startArg))
                \/ (endArg # NoneTxt /\ ParseDateRaises(endArg))
                \/ MonthRaises(month)
      start0 == IF startArg # NoneTxt THEN <<parse_date(startArg)>> ELSE <<>>
      end0 == IF endArg # NoneTxt THEN <<parse_date(endArg)>> ELSE <<>>
      mb == IF month.this THEN month_bounds(Today)
            ELSE month_bounds([year |-> month.parts[1], month |-> month.parts[2], day |-> 1])
      start == IF month # NoMonth THEN <<mb[1]>> ELSE start0
      end == IF month # NoMonth THEN <<mb[2]>> ELSE end0
      f == filter_expenses(expenses, start, end, category)
  IN  /\ csvExists' = TRUE
      /\ rows' = rs0
      /\ budgetsFile' = bud0
      /\ out' =
           IF raises
           THEN [cmd |-> "list", outcome |-> "unhandled", malformed |-> TRUE,
                 fcall |-> NoCall]
           ELSE IF f.raised
           THEN [cmd |-> "list", outcome |-> "unhandled", malformed |-> FALSE,
                 fcall |-> NoCall]
           ELSE IF Len(f.out) = 0
           THEN [cmd |-> "list", outcome |-> "ok", malformed |-> FALSE,
                 fcall |-> Call(start, end, category, f.out), printed |-> FALSE]
           ELSE IF SortRaises(f.out)
           THEN [cmd |-> "list", outcome |-> "unhandled", malformed |-> FALSE,
                 fcall |-> Call(start, end, category, f.out)]
           ELSE [cmd |-> "list", outcome |-> "ok", malformed |-> FALSE,
                 fcall |-> Call(start, end, category, f.out), printed |-> TRUE,
                 count |-> Len(f.out), total |-> SumAmounts(f.out)]

cmd_summary(period, startArg, endArg, category) ==
  LET rs0 == EnsureCsv(csvExists, rows)
      bud0 == EnsureBudgets(budgetsFile)
      expenses == load_expenses(rs0)
      missing == period = "range" /\ (startArg = NoneTxt \/ endArg = NoneTxt)
      raises == period = "range" /\ ~missing
                /\ (ParseDateRaises(startArg) \/ ParseDateRaises(endArg))
      monday == MinusDays(Today, Weekday(Today))
      start == CASE period = "today" -> <<Today>>
                 [] period = "week"  -> <<monday>>
                 [] period = "month" -> <<month_bounds(Today)[1]>>
                 [] period = "range" -> <<parse_date(startArg)>>
                 [] OTHER -> <<>>
      end == CASE period = "today" -> <<Today>>
               [] period = "week"  -> <<PlusDays(monday, 6)>>
               [] period = "month" -> <<month_bounds(Today)[2]>>
               [] period = "range" -> <<parse_date(endArg)>>
               [] OTHER -> <<>>
      f == filter_expenses(expenses, start, end, category)
      totals == summarize(f.out)
  IN  /\ csvExists' = TRUE
      /\ rows' = rs0
      /\ budgetsFile' = bud0
      /\ out' =
           IF missing
           THEN [cmd |-> "summary", outcome |-> "usage", malformed |-> FALSE,
                 fcall |-> NoCall]
           ELSE IF raises
           THEN [cmd |-> "summary", outcome |-> "unhandled", malformed |-> TRUE,
                 fcall |-> NoCall]
           ELSE IF f.raised
           THEN [cmd |-> "summary", outcome |-> "unhandled", malformed |-> FALSE,
                 fcall |-> NoCall]
           ELSE IF DOMAIN totals = {}
           THEN [cmd |-> "summary", outcome |-> "ok", malformed |-> FALSE,
                 fcall |-> Call(start, end, category, f.out), printed |-> FALSE]
           ELSE IF None \in DOMAIN totals              \* f"{cat:<15}" on None
           THEN [cmd |-> "summary", outcome |-> "unhandled", malformed |-> FALSE,
                 fcall |-> Call(start, end, category, f.out)]
           ELSE [cmd |-> "summary", outcome |-> "ok", malformed |-> FALSE,
                 fcall |-> Call(start, end, category, f.out), printed |-> TRUE,
                 totals |-> totals, grand |-> SumValues(totals)]

\* set-budget that saves only the entry it was given
set_budget_alone(budgets, category, amount) ==
  [c \in {category} |-> Round2(amount)]

\* budgets[args.category] = round(float(args.amount), 2)
set_budget(budgets, category, amount) ==
  [c \in DOMAIN budgets \cup {category} |->
     IF c = category THEN Round2(amount) ELSE budgets[c]]

\* categoryArg is None or a string, amountArg is <<>> or <<amount>>
cmd_set_budget(categoryArg, amountArg) ==
  LET rs0 == EnsureCsv(csvExists, rows)
      bud0 == EnsureBudgets(budgetsFile)
      budgets == load_budgets(bud0)
  IN  /\ csvExists' = TRUE
      /\ rows' = rs0
      /\ IF Len(amountArg) = 0 \/ categoryArg = None
         THEN /\ budgetsFile' = bud0
              /\ out' = [cmd |-> "set-budget", outcome |-> "ok", malformed |-> FALSE,
                         fcall |-> NoCall, set |-> FALSE, listed |-> budgets]
         ELSE /\ budgetsFile' = save_budgets(set_budget(budgets, categoryArg, amountArg[1]))
              /\ out' = [cmd |-> "set-budget", outcome |-> "ok", malformed |-> FALSE,
                         fcall |-> NoCall, set |-> TRUE, category |-> categoryArg,
                         amount |-> amountArg[1]]

\* One row of the report (lines 266-285)
report_row(c, totals, budgets) ==
  LET spent == IF c \in DOMAIN totals THEN totals[c] ELSE 0
      budget == IF c \in DOMAIN budgets THEN budgets[c] ELSE 0
      left == IF budget # 0 THEN budget - spent ELSE 0
  IN  [category |-> c, spent |-> spent, budget |-> budget, left |-> left]

report_rows(totals, budgets) ==
  LET cats == SortedCats(DOMAIN totals \cup DOMAIN budgets)
  IN  [i \in DOMAIN cats |-> report_row(cats[i], totals, budgets)]

cmd_report ==
  LET rs0 == EnsureCsv(csvExists, rows)
      bud0 == EnsureBudgets(budgetsFile)
      mb == month_bounds(Today)
      f == filter_expenses(load_expenses(rs0), <<mb[1]>>, <<mb[2]>>, None)
      totals == summarize(f.out)
      budgets == load_budgets(bud0)
      cats == DOMAIN totals \cup DOMAIN budgets
  IN  /\ csvExists' = TRUE
      /\ rows' = rs0
      /\ budgetsFile' = bud0
      /\ out' =
           IF None \in cats /\ Cardinality(cats) > 1       \* sorted() raises
           THEN [cmd |-> "report", outcome |-> "unhandled", malformed |-> FALSE,
                 fcall |-> Call(<<mb[1]>>, <<mb[2]>>, None, f.out)]
           ELSE IF cats = {}
           THEN [cmd |-> "report", outcome |-> "ok", malformed |-> FALSE,
                 fcall |-> Call(<<mb[1]>>, <<mb[2]>>, None, f.out), printed |-> FALSE]
           ELSE [cmd |-> "report", outcome |-> "ok", malformed |-> FALSE,
                 fcall |-> Call(<<mb[1]>>, <<mb[2]>>, None, f.out), printed |-> TRUE,
                 table |-> report_rows(totals, budgets)]

-----------------------------------------------------------------------------
\* Inputs

BadDate == DateText(2024, 2, 30)
Nov30 == DateText(2024, 11, 30)
Nov1 == DateText(2024, 11, 1)
Dec5 == DateText(2024, 12, 5)

AddDates == {NoneTxt, Nov30, BadDate}
AddAmounts == {1250}
Categories == {"food", "Food", ""}
AddNotes == {None}

BudgetCategories == {"food", ""}
BudgetAmounts == {0, 1246}

ListArgs ==
  { <<NoMonth, NoneTxt, NoneTxt, None>>,
    <<[this |-> TRUE, parts |-> <<>>], NoneTxt, NoneTxt, "Food">>,
    <<[this |-> FALSE, parts |-> <<2024, 11>>], NoneTxt, NoneTxt, None>>,
    <<[this |-> FALSE, parts |-> <<2024, 13>>], NoneTxt, NoneTxt, None>>,
    <<[this |-> FALSE, parts |-> <<2024>>], NoneTxt, NoneTxt, None>>,
    <<NoMonth, BadDate, NoneTxt, None>>,
    <<NoMonth, NoneTxt, BadDate, "food">>,
    <<NoMonth, Nov1, Dec5, "">>,
    <<NoMonth, Dec5, NoneTxt, "food">> }

SummaryArgs ==
  { <<"today", NoneTxt, NoneTxt, None>>,
    <<"week", NoneTxt, NoneTxt, None>>,
    <<"month", NoneTxt, NoneTxt, "Food">>,
    <<"range", NoneTxt, Dec5, None>>,
    <<"range", Nov1, Nov30, None>>,
    <<"range", Nov1, BadDate, None>>,
    <<"all", NoneTxt, NoneTxt, "">>,
    <<"all", NoneTxt, NoneTxt, None>> }

-----------------------------------------------------------------------------
\* The program on a fresh data directory, or on one whose budgets file is
\* unreadable

NoOutput == [cmd |-> "none", outcome |-> "ok", malformed |-> FALSE, fcall |-> NoCall]

Init ==
  /\ csvExists \in BOOLEAN
  /\ rows = <<>>
  /\ budgetsFile \in {[state |-> "absent", map |-> EmptyMap],
                      [state |-> "corrupt", map |-> EmptyMap]}
  /\ out = NoOutput

Add == \E d \in AddDates, a \in AddAmounts, c \in Categories, n \in AddNotes,
          padded \in BOOLEAN :
         cmd_add(d, a, c, n, padded)

List == \E a \in ListArgs : cmd_list(a[1], a[2], a[3], a[4])

Summary == \E a \in SummaryArgs : cmd_summary(a[1], a[2], a[3], a[4])

SetBudget ==
  \/ \E c \in BudgetCategories, a \in BudgetAmounts : cmd_set_budget(c, <<a>>)
  \/ \E c \in BudgetCategories \cup {None} : cmd_set_budget(c, <<>>)

Report == cmd_report

Next == Add \/ List \/ Summary \/ SetBudget \/ Report

Spec == Init /\ [][Next]_vars

-----------------------------------------------------------------------------
\* The program on a store that was edited by hand: the expenses file holds
\* rows that load_expenses has to skip, and a budget is set for "food".

GoodDate == DateText(2024, 12, 1)
Year999 == DateText(999, 1, 5)

RawRows ==
  { <<>>,                                 \* blank line
    <<GoodDate>>,                         \* amount, category and note missing
    <<GoodDate, <<1250>>>>,               \* category and note missing
    <<GoodDate, <<1250>>, "food">>,       \* note missing
    <<BadDate, <<1250>>, "food", "">>,    \* not a calendar date
    <<GoodDate, <<>>, "food", "">>,       \* amount is not a number
    <<GoodDate, <<1254>>, "Food", "n">> } \* parses

RawStores == UNION {[1..k -> RawRows] : k \in 0..MaxRaw}

InitLoad ==
  /\ csvExists = TRUE
  /\ rows \in RawStores
  /\ budgetsFile = [state |-> "json", map |-> [c \in {"food"} |-> 1250]]
  /\ out = NoOutput

AddLoad == \E d \in {NoneTxt, Nov30, Year999}, a \in {1250, 1254}, c \in {"food", "Food"},
              n \in {None, "n"}, padded \in BOOLEAN :
             cmd_add(d, a, c, n, padded)

SummaryLoad == \E a \in {<<"all", NoneTxt, NoneTxt, None>>,
                         <<"month", NoneTxt, NoneTxt, "food">>} :
                 cmd_summary(a[1], a[2], a[3], a[4])

NextLoad == AddLoad \/ SummaryLoad

SpecLoad == InitLoad /\ [][NextLoad]_vars

-----------------------------------------------------------------------------
\* Properties

\* The budgets a command sees
Budgets(b) == load_budgets(EnsureBudgets(b))

SameMonth(a, b) == a.year = b.year /\ a.month = b.month

\* C1: after add has appended a transaction T whose amount has at most two
\* decimals, the last element of load_expenses() equals T field for field.
RoundTrip ==
  (out.cmd = "add" /\ out.appended /\ out.e.amount % 10 = 0) =>
    LET es == load_expenses(rows)
    IN  /\ Len(es) > 0
        /\ es[Len(es)].when = out.e.when
        /\ es[Len(es)].amount = out.e.amount
        /\ es[Len(es)].category = out.e.category
        /\ es[Len(es)].note = out.e.note

\* The round trip of C1 for the transactions whose year has four digits
RoundTripFourDigitYear ==
  (out.cmd = "add" /\ out.appended /\ out.e.amount % 10 = 0 /\ out.e.when.year >= 1000) =>
    LET es == load_expenses(rows)
    IN  Len(es) > 0 /\ es[Len(es)] = out.e

\* C2: a successful add extends the stored rows by exactly one row at the end
\* and keeps every earlier row in place; every other step (a failed add, list,
\* summary, set-budget, report, each with its ensure_storage) leaves the stored
\* rows as they were.
AppendOnly ==
  [][IF out'.cmd = "add" /\ out'.appended
     THEN /\ Len(rows') = Len(rows) + 1
          /\ SubSeq(rows', 1, Len(rows)) = rows
          /\ \E padded \in BOOLEAN : rows'[Len(rows')] = to_row(out'.e, padded)
     ELSE rows' = rows]_vars

AppendOnlyWitness ==
  /\ out.cmd \in {"list", "summary", "set-budget", "report"}
  /\ Len(rows) = 2
  /\ rows[1] # rows[2]

\* C3: load_expenses returns, in storage order, exactly the rows that have a
\* valid date, a numeric amount and a category, and every Expense it returns
\* has a string category.
WellFormedRow(r) == Len(r) >= 3 /\ ValidDateText(r[1]) /\ IsNumericText(r[2])

LoadSkipsUnparseable ==
  LET es == load_expenses(rows)
      good == SelectSeq(rows, WellFormedRow)
  IN  /\ Len(es) = Len(good)
      /\ \A i \in DOMAIN es :
           /\ es[i].when = strptime(good[i][1])
           /\ es[i].amount = float(good[i][2])
           /\ es[i].category = good[i][3]
           /\ es[i].category # None

\* C4: set-budget(c, a) makes the budget of c the amount a to the cent and
\* leaves every other entry as it was; no other step changes the budgets.
NearestCent(a) == 10 * ((a + 5) \div 10)

BudgetsLastWriteWins ==
  [][LET old == Budgets(budgetsFile)
         new == Budgets(budgetsFile')
     IN  IF out'.cmd = "set-budget" /\ out'.set
         THEN /\ DOMAIN new = DOMAIN old \cup {out'.category}
              /\ new[out'.category] = NearestCent(out'.amount)
              /\ \A k \in DOMAIN old \ {out'.category} : new[k] = old[k]
         ELSE new = old]_vars

BudgetsWitness ==
  /\ out.cmd = "set-budget" /\ out.set
  /\ out.amount = 1246
  /\ Cardinality(DOMAIN Budgets(budgetsFile)) = 2
  /\ \E k \in DOMAIN Budgets(budgetsFile) : Budgets(budgetsFile)[k] = 0

\* C5: in every row of the report, remaining is budget - spent when the
\* category has a budget entry (a limit of 0 included), and 0 when it has none.
ReportRemaining ==
  (out.cmd = "report" /\ out.outcome = "ok" /\ out.printed) =>
    \A i \in DOMAIN out.table :
      LET r == out.table[i]
          b == Budgets(budgetsFile)
      IN  IF r.category \in DOMAIN b
          THEN r.left = b[r.category] - r.spent
          ELSE r.left = 0

\* C6: when add records an expense in a budgeted category, it reports EXCEEDED
\* exactly when that category's spend in the month of the expense is above the
\* budget b, else OK, with the percentage spend / b * 100, and 0 when b is 0.
\* The spend of a category counts the stored expenses of the month whose
\* category equals it ignoring case.
ClaimSpend(c, when) ==
  SumAmounts(SelectSeq(load_expenses(rows),
    LAMBDA t : SameMonth(t.when, when) /\ Lower(t.category) = Lower(c)))

AddStatus ==
  (out.cmd = "add" /\ out.appended /\ out.e.category \in DOMAIN Budgets(budgetsFile)) =>
    LET b == Budgets(budgetsFile)[out.e.category]
        spend == ClaimSpend(out.e.category, out.e.when)
    IN  /\ out.status = IF spend > b THEN "EXCEEDED" ELSE "OK"
        /\ IF b = 0 THEN out.pct.num = 0
           ELSE out.pct.num * b = spend * 100 * out.pct.den

\* C7: a command given a malformed date or month ends as a handled error.
MalformedHandled == out.malformed => out.outcome # "unhandled"

\* C8: filter_expenses returns, in input order, exactly the transactions within
\* the supplied bounds whose category equals the supplied one ignoring case,
\* for every supplied category string, the empty string included.
ClaimFilter(es, start, end, category) ==
  SelectSeq(es, LAMBDA t :
    /\ (start = <<>> \/ ~DateLT(t.when, start[1]))
    /\ (end = <<>> \/ ~DateLT(end[1], t.when))
    /\ (category = None \/ Lower(t.category) = Lower(category)))

FilterExact ==
  Len(out.fcall) = 1 =>
    LET c == out.fcall[1]
    IN  c.result = ClaimFilter(load_expenses(rows), c.start, c.end, c.category)

\* C9: the report has, besides one row per category, a totals row with the sum
\* of spent, the sum of the budget entries and their difference.
ReportTotalsRow ==
  (out.cmd = "report" /\ out.outcome = "ok" /\ out.printed) =>
    LET b == Budgets(budgetsFile)
        mb == month_bounds(Today)
        totals == summarize(ClaimFilter(load_expenses(rows), <<mb[1]>>, <<mb[2]>>, None))
        cats == DOMAIN totals \cup DOMAIN b
    IN  /\ Len(out.table) = Cardinality(cats) + 1
        /\ \E i \in DOMAIN out.table :
             /\ out.table[i].spent = SumValues(totals)
             /\ out.table[i].budget = SumValues(b)
             /\ out.table[i].left = SumValues(b) - SumValues(totals)

\* C10: the spend that add compares with the budget of category c, for an
\* expense dated in the current month, is the spent value of c's report row.
AddReportAgree ==
  (out.cmd = "add" /\ out.appended /\ out.status \in {"OK", "EXCEEDED"}
     /\ SameMonth(out.e.when, Today)) =>
    LET mb == month_bounds(Today)
        f == filter_expenses(load_expenses(rows), <<mb[1]>>, <<mb[2]>>, None)
    IN  out.mtd = report_row(out.e.category, summarize(f.out), Budgets(budgetsFile)).spent

====
